---- MODULE Spec2Model ----
(***************************************************************************)
(* A model of src/src/main.rs: random undirected graphs on NODES_N nodes,  *)
(* the backtracking search for a Hamiltonian cycle (get_path / get_cycle), *)
(* the retry loop generate_with_given_kind, and main's Mode::Generation    *)
(* loop that fills the two buckets and then writes the two files.          *)
(*                                                                         *)
(* NODES_N is a compile-time constant of the source (11).  An exhaustive   *)
(* enumeration of all 2^55 graphs on 11 nodes is out of reach, so the      *)
(* model makes the node count a build configuration: the variable NODES_N  *)
(* is chosen in Init and never changes.  The operators that read the       *)
(* source's NODES_N take it as their first parameter n.                    *)
(***************************************************************************)
EXTENDS Integers, Sequences, FiniteSets, TLC

VARIABLES
    NODES_N,                 \* const NODES_N (line 6), one value per build
    kind,                    \* the GraphKind being generated
    improvements,            \* the flag passed to generate_with_given_kind
    graph,                   \* the Graph (nodes_n, edges), or NoGraph
    pc,                      \* position in the code
    i, j,                    \* loop indices of generate (lines 93-94)
    cycle,                   \* the Vec<usize> get_cycle returned
    cnt,                     \* the `_` of `for _ in 0..GRAPHS_N` (line 217)
    hamiltonian_graphs,      \* line 211
    non_hamiltonian_graphs,  \* line 212
    files                    \* names of the files written so far

vars == <<NODES_N, kind, improvements, graph, pc, i, j, cycle, cnt,
          hamiltonian_graphs, non_hamiltonian_graphs, files>>

(***************************************************************************)
(* Bounds of the model.                                                    *)
(***************************************************************************)
\* Largest node count explored by the function-level specifications.
MaxNodes == 5

\* Largest node count explored under fairness, where TLC searches for
\* cycles of the state graph.
MaxFairNodes == 4

\* The quota per class (100000 in the source, line 10), scaled down.
GRAPHS_N == 1

\* The node counts the whole-program specification is built with.  Below 3
\* safety() exits; 3 and 4 never leave generate_with_given_kind; 5 is the
\* smallest count for which a dataset is produced.  The buckets hold whole
\* matrices, so their contents multiply: larger counts are out of reach.
DatasetNodeCounts == {1, 2, 3, 4, 5}

\* safety(): "The number of nodes can't be lower than 3."
MinNodes == 3

GraphKind == {"Hamiltonian", "NonHamiltonian"}

NoGraph == [nodes_n |-> 0, edges |-> <<>>]

(***************************************************************************)
(* Graph                                                                   *)
(***************************************************************************)
Nodes(n) == 0 .. (n - 1)

\* static MAX_EDGES_N: usize = (NODES_N * (NODES_N - 1)) / 2;
MAX_EDGES_N(n) == (n * (n - 1)) \div 2

\* static EDGES_THRESHOLD: usize = (MAX_EDGES_N as f32 * 0.5) as usize;
\* the cast truncates, and x * 0.5 is exact in f32 for these small x.
EDGES_THRESHOLD(n) == MAX_EDGES_N(n) \div 2

\* Graph::new: an n x n matrix of false.
Graph_new(n) ==
    [nodes_n |-> n,
     edges   |-> [a \in Nodes(n) |-> [b \in Nodes(n) |-> FALSE]]]

\* A plausible slip: only one half of the matrix is written.
manage_edge_one_half(self, a, b, value) ==
    [self EXCEPT !.edges[a][b] = value]

\* Graph::manage_edge: edges[i][j] = value; edges[j][i] = value.
manage_edge(self, a, b, value) ==
    [self EXCEPT !.edges[a][b] = value, !.edges[b][a] = value]

\* x as usize
AsUsize(x) == IF x THEN 1 ELSE 0

RECURSIVE SumRow(_, _, _)
SumRow(row, n, k) ==
    IF k >= n THEN 0 ELSE AsUsize(row[k]) + SumRow(row, n, k + 1)

\* self.edges[i].iter().map(|x| *x as usize).sum::<usize>()
degree(self, a) == SumRow(self.edges[a], self.nodes_n, 0)

RECURSIVE SumRows(_, _)
SumRows(self, a) ==
    IF a >= self.nodes_n THEN 0 ELSE degree(self, a) + SumRows(self, a + 1)

\* self.edges.iter().flatten().map(|x| *x as usize).sum::<usize>() / 2
edge_count(self) == SumRows(self, 0) \div 2

(***************************************************************************)
(* The Oracle: get_path and get_cycle (lines 44-71).                       *)
(***************************************************************************)
Contains(path, x) == \E k \in 1 .. Len(path) : path[k] = x

RECURSIVE get_path(_, _, _, _), for_node(_, _, _, _, _)

\* A plausible slip: the loop bound is off by one, the last node is never
\* tried.
for_node_short(n, self, path, current_node, node) ==
    IF node >= n - 1 THEN <<>>
    ELSE IF self.edges[current_node][node]
         THEN LET found == get_path(n, self, path, node)
              IN  IF found # <<>> THEN found
                  ELSE for_node(n, self, path, current_node, node + 1)
         ELSE for_node(n, self, path, current_node, node + 1)

\* A plausible slip: the neighbours are tried in decreasing index order.
for_node_desc(n, self, path, current_node, node) ==
    IF node >= n THEN <<>>
    ELSE IF self.edges[current_node][n - 1 - node]
         THEN LET found == get_path(n, self, path, n - 1 - node)
              IN  IF found # <<>> THEN found
                  ELSE for_node(n, self, path, current_node, node + 1)
         ELSE for_node(n, self, path, current_node, node + 1)

\* The loop `for node in 0..NODES_N` of get_path (lines 56-64), from
\* `node` on: the first neighbour whose recursive call finds a path wins.
for_node(n, self, path, current_node, node) ==
    IF node >= n THEN <<>>
    ELSE IF self.edges[current_node][node]
         THEN LET found == get_path(n, self, path, node)
              IN  IF found # <<>> THEN found
                  ELSE for_node(n, self, path, current_node, node + 1)
         ELSE for_node(n, self, path, current_node, node + 1)

\* A plausible slip: the cycle is closed one node early.
get_path_early(n, self, path, current_node) ==
    IF current_node = 0 /\ Len(path) = n - 1 THEN Append(path, 0)
    ELSE IF Contains(path, current_node) THEN <<>>
    ELSE for_node(n, self, Append(path, current_node), current_node, 0)

\* Graph::get_path (lines 44-67).
get_path(n, self, path, current_node) ==
    IF current_node = 0 /\ Len(path) = n THEN Append(path, 0)
    ELSE IF Contains(path, current_node) THEN <<>>
    ELSE for_node(n, self, Append(path, current_node), current_node, 0)

\* Graph::get_cycle (lines 69-71).
get_cycle(n, self) == get_path(n, self, <<>>, 0)

(***************************************************************************)
(* Reference notions the claims are stated against; none of them is used   *)
(* by an action.                                                           *)
(***************************************************************************)
\* The unordered pairs {a, b}, a < b, in the order generate visits them.
PairsOf(n) == {p \in Nodes(n) \X Nodes(n) : p[1] < p[2]}

\* The graph whose present edges are exactly the pairs in S.
GraphOf(n, S) ==
    [nodes_n |-> n,
     edges   |-> [a \in Nodes(n) |->
                    [b \in Nodes(n) |-> (<<a, b>> \in S) \/ (<<b, a>> \in S)]]]

\* Every symmetric, loop-free graph on n nodes.
AllGraphs(n) == {GraphOf(n, S) : S \in SUBSET PairsOf(n)}

\* Every ordering of all n nodes that starts at node 0, closed by node 0.
Tours(n) ==
    {[k \in 1 .. (n + 1) |-> IF k = 1 \/ k = n + 1 THEN 0 ELSE p[k - 1]] :
        p \in Permutations(1 .. (n - 1))}

IsTourOf(self, t) == \A k \in 1 .. (Len(t) - 1) : self.edges[t[k]][t[k + 1]]

HamiltonianCycles(self) == {t \in Tours(self.nodes_n) : IsTourOf(self, t)}

HasHamiltonianCycle(self) == \E t \in Tours(self.nodes_n) : IsTourOf(self, t)

LexLess(s, t) ==
    \E k \in 1 .. Len(s) :
        /\ k <= Len(t)
        /\ s[k] < t[k]
        /\ \A m \in 1 .. (k - 1) : s[m] = t[m]

Symmetric(self) ==
    /\ \A a, b \in Nodes(self.nodes_n) : self.edges[a][b] = self.edges[b][a]
    /\ \A a \in Nodes(self.nodes_n) : ~self.edges[a][a]

(***************************************************************************)
(* OracleSpec: get_cycle applied to every graph on 3 .. MaxNodes nodes.    *)
(***************************************************************************)
OracleInit ==
    /\ NODES_N \in MinNodes .. MaxNodes
    /\ graph \in AllGraphs(NODES_N)
    /\ pc = "oracle"
    /\ cycle = <<>>
    /\ kind = "Hamiltonian"
    /\ improvements = TRUE
    /\ i = 0
    /\ j = 0
    /\ cnt = 0
    /\ hamiltonian_graphs = <<>>
    /\ non_hamiltonian_graphs = <<>>
    /\ files = {}

\* let cycle = graph.get_cycle();
GetCycle ==
    /\ pc = "oracle"
    /\ cycle' = get_cycle(NODES_N, graph)
    /\ pc' = "oracle_done"
    /\ UNCHANGED <<NODES_N, kind, improvements, graph, i, j, cnt,
                   hamiltonian_graphs, non_hamiltonian_graphs, files>>

OracleNext == GetCycle

OracleSpec == OracleInit /\ [][OracleNext]_vars

(***************************************************************************)
(* Claims about the Oracle, checked under OracleSpec.                      *)
(***************************************************************************)
\* C1 (oracle soundness): whenever get_cycle returns a non-empty sequence,
\* the sequence has length NODES_N + 1, starts and ends at node 0, its first
\* NODES_N entries are pairwise distinct, and every consecutive pair,
\* the closing pair back to node 0 included, is a present edge.
C1_Soundness ==
    (pc = "oracle_done" /\ cycle # <<>>) =>
        /\ Len(cycle) = NODES_N + 1
        /\ cycle[1] = 0
        /\ cycle[Len(cycle)] = 0
        /\ \A a, b \in 1 .. NODES_N :
               (a \in DOMAIN cycle /\ b \in DOMAIN cycle /\ a # b)
                   => cycle[a] # cycle[b]
        /\ \A k \in 1 .. (Len(cycle) - 1) : graph.edges[cycle[k]][cycle[k + 1]]

\* A cycle was returned for a graph that is not complete, so that the edge
\* test of every step matters.
C1_Witness ==
    /\ pc = "oracle_done"
    /\ cycle # <<>>
    /\ NODES_N = 4
    /\ edge_count(graph) < MAX_EDGES_N(NODES_N)

CompleteGraph(n) == GraphOf(n, PairsOf(n))

StarGraph(n) == GraphOf(n, {p \in PairsOf(n) : p[1] = 0})

\* C2 (oracle completeness): get_cycle returns the empty sequence if and
\* only if no ordering of all nodes starting at 0 has all its consecutive
\* pairs and its closing pair present; the complete graph on 4 nodes yields
\* a cycle and the 4-node star yields none.
C2_Completeness ==
    (pc = "oracle_done") =>
        /\ (cycle = <<>>) <=> ~HasHamiltonianCycle(graph)
        /\ graph = CompleteGraph(4) => cycle # <<>>
        /\ graph = StarGraph(4) => cycle = <<>>

\* The search ran on the 4-node star and found nothing.
C2_Witness ==
    /\ pc = "oracle_done"
    /\ graph = StarGraph(4)
    /\ cycle = <<>>

\* C10 (tie-break by increasing node index): for a graph with at least one
\* Hamiltonian cycle, get_cycle returns the lexicographically smallest of
\* the Hamiltonian cycles written as sequences from node 0 to node 0; the
\* order decides which cycle is returned, not whether one is.
C10_LexSmallest ==
    (pc = "oracle_done") =>
        IF HamiltonianCycles(graph) = {}
        THEN cycle = <<>>
        ELSE /\ cycle \in HamiltonianCycles(graph)
             /\ \A t \in HamiltonianCycles(graph) :
                    t = cycle \/ LexLess(cycle, t)

\* A graph with several Hamiltonian cycles, where the choice is a real one.
C10_Witness ==
    /\ pc = "oracle_done"
    /\ Cardinality(HamiltonianCycles(graph)) > 2
    /\ cycle # <<>>

(***************************************************************************)
(* The Generator: generate and generate_with_given_kind (lines 92-135).    *)
(***************************************************************************)
\* A plausible slip: the degree floor of the NonHamiltonian filter is 1.
Rejected_floor_one(n, self, k, improve) ==
    /\ improve
    /\ IF k = "Hamiltonian"
       THEN edge_count(self) > EDGES_THRESHOLD(n)
       ELSE \E a \in Nodes(n) : degree(self, a) < 1

\* A plausible slip: the density test compares with MAX_EDGES_N instead of
\* EDGES_THRESHOLD.
Rejected_no_threshold(n, self, k, improve) ==
    /\ improve
    /\ IF k = "Hamiltonian"
       THEN edge_count(self) > MAX_EDGES_N(n)
       ELSE \E a \in Nodes(n) : degree(self, a) < 2

\* The `continue` conditions of lines 104-127: with improvements, a
\* Hamiltonian candidate is dropped when it has more than EDGES_THRESHOLD
\* edges and a NonHamiltonian one when some node has degree below 2.
Rejected(n, self, k, improve) ==
    /\ improve
    /\ IF k = "Hamiltonian"
       THEN edge_count(self) > EDGES_THRESHOLD(n)
       ELSE \E a \in Nodes(n) : degree(self, a) < 2

\* A plausible slip: == in place of != in the test of line 129.
Accepted_inverted(n, self, k) ==
    (get_cycle(n, self) = <<>>) = (k = "Hamiltonian")

\* Line 129: self.get_cycle().is_empty() != (kind == GraphKind::Hamiltonian)
Accepted(n, self, k) ==
    (get_cycle(n, self) = <<>>) # (k = "Hamiltonian")

\* One iteration of the inner loop of generate (line 95) with the drawn
\* value, and the loop control of lines 93-94: the next pair, or the end of
\* generate.
GenerateStep(value) ==
    /\ pc = "generate"
    /\ graph' = manage_edge(graph, i, j, value)
    /\ IF j + 1 < graph.nodes_n
       THEN /\ i' = i
            /\ j' = j + 1
            /\ pc' = "generate"
       ELSE IF i + 2 < graph.nodes_n
            THEN /\ i' = i + 1
                 /\ j' = i + 2
                 /\ pc' = "generate"
            ELSE /\ i' = 0
                 /\ j' = 1
                 /\ pc' = "improvements"
    /\ UNCHANGED <<NODES_N, kind, improvements, cycle, cnt,
                   hamiltonian_graphs, non_hamiltonian_graphs, files>>

\* Graph::generate, one manage_edge(i, j, random::<bool>()) at a time.
Generate == \E value \in BOOLEAN : GenerateStep(value)

\* Lines 104-127 when a filter fires: `continue`, the graph is kept as it is
\* and generate overwrites it.
Continue ==
    /\ pc = "improvements"
    /\ Rejected(NODES_N, graph, kind, improvements)
    /\ pc' = "generate"
    /\ UNCHANGED <<NODES_N, kind, improvements, graph, i, j, cycle, cnt,
                   hamiltonian_graphs, non_hamiltonian_graphs, files>>

\* Lines 129-130: the candidate is of the wanted kind, `break`.
Break ==
    /\ pc = "improvements"
    /\ ~Rejected(NODES_N, graph, kind, improvements)
    /\ Accepted(NODES_N, graph, kind)
    /\ pc' = "returned"
    /\ UNCHANGED <<NODES_N, kind, improvements, graph, i, j, cycle, cnt,
                   hamiltonian_graphs, non_hamiltonian_graphs, files>>

\* Lines 131-133: the candidate is of the other kind,
\* *self = Graph::new(NODES_N), and the loop goes round.
Reset ==
    /\ pc = "improvements"
    /\ ~Rejected(NODES_N, graph, kind, improvements)
    /\ ~Accepted(NODES_N, graph, kind)
    /\ graph' = Graph_new(NODES_N)
    /\ pc' = "generate"
    /\ UNCHANGED <<NODES_N, kind, improvements, i, j, cycle, cnt,
                   hamiltonian_graphs, non_hamiltonian_graphs, files>>

(***************************************************************************)
(* GenSpec: one call graph.generate_with_given_kind(kind, improvements) on *)
(* a graph fresh from Graph::new that passed safety() (lines 218-220), for *)
(* each kind, each value of the flag and each node count 3 .. MaxNodes.    *)
(***************************************************************************)
GenInit ==
    /\ NODES_N \in MinNodes .. MaxNodes
    /\ kind \in GraphKind
    /\ improvements \in BOOLEAN
    /\ graph = Graph_new(NODES_N)
    /\ pc = "generate"
    /\ i = 0
    /\ j = 1
    /\ cycle = <<>>
    /\ cnt = 0
    /\ hamiltonian_graphs = <<>>
    /\ non_hamiltonian_graphs = <<>>
    /\ files = {}

GenNext == Generate \/ Continue \/ Break \/ Reset

GenSpec == GenInit /\ [][GenNext]_vars

\* What a call generate_with_given_kind(k, improve) can return: the loop of
\* lines 101-134 leaves only through `break`, with the graph generate drew
\* last, which no filter rejected and line 129 accepted.  GenSpec steps
\* through that loop; ReturnsOnlyReturnable ties the two together.
Returnable(n, k, improve) ==
    {g \in AllGraphs(n) : ~Rejected(n, g, k, improve) /\ Accepted(n, g, k)}

\* The same sets for every configuration of FairGenSpec, computed once.
ReturnableInFairGen ==
    [n \in MinNodes .. MaxFairNodes |->
        [k \in GraphKind |-> [b \in BOOLEAN |-> Returnable(n, k, b)]]]

\* The pairs generate has drawn once it has drawn pair p.
DrawnUpTo(n, p) ==
    {q \in Nodes(n) \X Nodes(n) :
        /\ q[1] < q[2]
        /\ (q[1] < p[1] \/ (q[1] = p[1] /\ q[2] <= p[2]))}

\* The draw at pair p keeps the pass on the way to a graph the call can
\* return: what this pass has drawn so far agrees with such a graph.
LuckyStep(p) ==
    /\ i = p[1]
    /\ j = p[2]
    /\ \E value \in BOOLEAN : GenerateStep(value)
    /\ \E r \in ReturnableInFairGen[NODES_N][kind][improvements] :
           \A q \in DrawnUpTo(NODES_N, p) :
               r.edges[q[1]][q[2]] = graph'.edges[q[1]][q[2]]

\* The draws are fair: the loop keeps running while it can, and every
\* adjacency assignment keeps being drawn.  Of that, termination needs only
\* this much: at each pair, a draw that can keep the pass on the way to a
\* returnable graph infinitely often does so infinitely often.
FairGenInit == GenInit /\ NODES_N <= MaxFairNodes

FairGenSpec ==
    /\ FairGenInit
    /\ [][GenNext]_vars
    /\ WF_vars(GenNext)
    /\ \A p \in PairsOf(MaxFairNodes) : SF_vars(LuckyStep(p))

(***************************************************************************)
(* main, Mode::Generation (lines 210-249).                                 *)
(***************************************************************************)
\* What the calls main makes can return (improvements = true, line 220),
\* computed once.
ReturnableInMain ==
    [n \in DatasetNodeCounts |->
        [k \in GraphKind |->
            IF n < MinNodes THEN {} ELSE Returnable(n, k, TRUE)]]

\* A plausible slip: the check accepts two nodes.
safety_exits_below_two(self) == self.nodes_n < 2

\* Graph::safety (lines 73-79): whether it prints the message and exits.
safety_exits(self) == self.nodes_n < 3

\* let mut graph = Graph::new(NODES_N);   (line 218), while the inner loop
\* `for _ in 0..GRAPHS_N` has iterations left.
NewGraph ==
    /\ pc = "loop"
    /\ cnt < GRAPHS_N
    /\ graph' = Graph_new(NODES_N)
    /\ pc' = "safety"
    /\ UNCHANGED <<NODES_N, kind, improvements, i, j, cycle, cnt,
                   hamiltonian_graphs, non_hamiltonian_graphs, files>>

\* graph.safety();   (line 219)
Safety ==
    /\ pc = "safety"
    /\ pc' = IF safety_exits(graph) THEN "exited" ELSE "call"
    /\ UNCHANGED <<NODES_N, kind, improvements, graph, i, j, cycle, cnt,
                   hamiltonian_graphs, non_hamiltonian_graphs, files>>

\* graph.generate_with_given_kind(kind, true);   (line 220), the whole
\* call.  When nothing is returnable the call never returns.
GenerateWithGivenKind ==
    /\ pc = "call"
    /\ graph' \in ReturnableInMain[NODES_N][kind]
    /\ pc' = "push"
    /\ UNCHANGED <<NODES_N, kind, improvements, i, j, cycle, cnt,
                   hamiltonian_graphs, non_hamiltonian_graphs, files>>

\* A plausible slip: both kinds are pushed to the same bucket.
PushTo_same(k, edges, ham, non_ham) == <<Append(ham, edges), non_ham>>

\* Lines 222-225: the two buckets after the push of `edges`.
PushTo(k, edges, ham, non_ham) ==
    IF k = "Hamiltonian"
    THEN <<Append(ham, edges), non_ham>>
    ELSE <<ham, Append(non_ham, edges)>>

\* match kind { ... push(graph.edges) }, end of one iteration of line 217.
Push ==
    /\ pc = "push"
    /\ LET both == PushTo(kind, graph.edges, hamiltonian_graphs,
                          non_hamiltonian_graphs)
       IN  /\ hamiltonian_graphs' = both[1]
           /\ non_hamiltonian_graphs' = both[2]
    /\ cnt' = cnt + 1
    /\ pc' = "loop"
    /\ UNCHANGED <<NODES_N, kind, improvements, graph, i, j, cycle, files>>

\* `for kind in GraphKind::ALL` (line 216) moves on to NonHamiltonian.
NextKind ==
    /\ pc = "loop"
    /\ cnt = GRAPHS_N
    /\ kind = "Hamiltonian"
    /\ kind' = "NonHamiltonian"
    /\ cnt' = 0
    /\ UNCHANGED <<NODES_N, improvements, graph, pc, i, j, cycle,
                   hamiltonian_graphs, non_hamiltonian_graphs, files>>

\* Both loops are over (line 227).
EndLoops ==
    /\ pc = "loop"
    /\ cnt = GRAPHS_N
    /\ kind = "NonHamiltonian"
    /\ pc' = "write"
    /\ UNCHANGED <<NODES_N, kind, improvements, graph, i, j, cycle, cnt,
                   hamiltonian_graphs, non_hamiltonian_graphs, files>>

\* Content { info: Info { nodes_n: NODES_N, graphs_n: GRAPHS_N }, graphs }
Content(name, graphs) ==
    [name   |-> name,
     info   |-> [nodes_n |-> NODES_N, graphs_n |-> GRAPHS_N],
     graphs |-> graphs]

\* Lines 231-248: first hamiltonian_graphs.json, then
\* non_hamiltonian_graphs.json.
WriteFile ==
    /\ pc = "write"
    /\ IF files = {}
       THEN /\ files' = {Content("hamiltonian_graphs", hamiltonian_graphs)}
            /\ pc' = "write"
       ELSE /\ files' = files \cup
                  {Content("non_hamiltonian_graphs", non_hamiltonian_graphs)}
            /\ pc' = "done"
    /\ UNCHANGED <<NODES_N, kind, improvements, graph, i, j, cycle, cnt,
                   hamiltonian_graphs, non_hamiltonian_graphs>>

Init ==
    /\ NODES_N \in DatasetNodeCounts
    /\ kind = "Hamiltonian"
    /\ improvements = TRUE
    /\ graph = NoGraph
    /\ pc = "loop"
    /\ i = 0
    /\ j = 1
    /\ cycle = <<>>
    /\ cnt = 0
    /\ hamiltonian_graphs = <<>>
    /\ non_hamiltonian_graphs = <<>>
    /\ files = {}

Next ==
    \/ NewGraph
    \/ Safety
    \/ GenerateWithGivenKind
    \/ Push
    \/ NextKind
    \/ EndLoops
    \/ WriteFile

Spec == Init /\ [][Next]_vars


(***************************************************************************)
(* Claims about generate_with_given_kind, checked under GenSpec.           *)
(***************************************************************************)
\* C3 (labels are the Oracle's): for either kind and either value of the
\* improvements flag, the graph held when generate_with_given_kind returns
\* has a Hamiltonian cycle if and only if kind is Hamiltonian.
C3_LabelIsOracle ==
    (pc = "returned") =>
        (HasHamiltonianCycle(graph) <=> (kind = "Hamiltonian"))

\* A call without improvements returned a Hamiltonian graph that the density
\* filter would have dropped.
C3_Witness ==
    /\ pc = "returned"
    /\ kind = "Hamiltonian"
    /\ ~improvements
    /\ edge_count(graph) > EDGES_THRESHOLD(NODES_N)

\* C4 (minimum degree): every graph generate_with_given_kind returns with
\* improvements enabled, for either kind, has degree at least 2 at every
\* node.
C4_MinDegree ==
    (pc = "returned" /\ improvements) =>
        \A a \in Nodes(NODES_N) : degree(graph, a) >= 2

\* A call with improvements returned a graph of the NonHamiltonian kind.
C4_Witness ==
    /\ pc = "returned"
    /\ improvements
    /\ kind = "NonHamiltonian"

\* C6 (symmetry): in every state of a Graph, after new, after every
\* manage_edge of generate, after every retry and reset of
\* generate_with_given_kind, edges[a][b] = edges[b][a] and ~edges[a][a].
C6_Symmetry == Symmetric(graph)

\* In the middle of generate, on a graph a `continue` left in place, with
\* edges already drawn.
C6_Witness ==
    /\ pc = "generate"
    /\ i = 1
    /\ edge_count(graph) > 2

\* C8 (termination): for every node count >= 3 and each kind, under fair
\* draws, the retry loop of generate_with_given_kind eventually returns.
C8_Terminates == <>(pc = "returned")

(***************************************************************************)
(* Claims about main, checked under Spec.                                  *)
(***************************************************************************)
Stored ==
    {hamiltonian_graphs[k] : k \in 1 .. Len(hamiltonian_graphs)} \cup
    {non_hamiltonian_graphs[k] : k \in 1 .. Len(non_hamiltonian_graphs)}

AsGraph(edges) == [nodes_n |-> NODES_N, edges |-> edges]

\* C5 as stated (exact edge count): all graphs the Generator returned in one
\* run have the same number of present edges, the configured target.
C5_ExactEdgeCount ==
    \A e1, e2 \in Stored : edge_count(AsGraph(e1)) = edge_count(AsGraph(e2))

\* C5 as amended: every graph the Generator returned has at least NODES_N
\* edges, and one of the Hamiltonian kind has at most EDGES_THRESHOLD; the
\* count is not one configured target and differs between samples.
C5_EdgeCountRange ==
    /\ \A e \in Stored : edge_count(AsGraph(e)) >= NODES_N
    /\ \A k \in 1 .. Len(hamiltonian_graphs) :
           edge_count(AsGraph(hamiltonian_graphs[k])) <= EDGES_THRESHOLD(NODES_N)

\* Both buckets are filled.
C5_Witness ==
    /\ Len(hamiltonian_graphs) = GRAPHS_N
    /\ Len(non_hamiltonian_graphs) = GRAPHS_N
    /\ GRAPHS_N > 0

C9_NoGraphProduced ==
    (NODES_N < 3) => graph = NoGraph

\* C9 as amended: for a node count below 3, Graph::new returns the empty
\* graph and the safety() call that follows it exits, before any generation
\* begins: nothing is generated, stored or written.
C9_ExitBeforeGeneration ==
    (NODES_N < 3) =>
        /\ pc \in {"loop", "safety", "exited"}
        /\ graph \in {NoGraph, Graph_new(NODES_N)}
        /\ hamiltonian_graphs = <<>>
        /\ non_hamiltonian_graphs = <<>>
        /\ files = {}

\* safety() has exited a run built with two nodes.
C9_Witness ==
    /\ pc = "exited"
    /\ NODES_N = 2

(***************************************************************************)
(* Supporting lemmas, checked with the claims.                             *)
(***************************************************************************)
\* Under GenSpec: what the stepped loop returns is in Returnable.
ReturnsOnlyReturnable ==
    (pc = "returned") => graph \in Returnable(NODES_N, kind, improvements)

\* Under FairGenSpec: the stated fairness is enough for the loop to return
\* whenever some graph is returnable at all.
TerminatesWhenReturnable ==
    (ReturnableInFairGen[NODES_N][kind][improvements] # {}) =>
        <>(pc = "returned")

\* Under Spec: the consequence of C3 and C4 for the buckets.
BucketsLabelled ==
    /\ \A k \in 1 .. Len(hamiltonian_graphs) :
           HasHamiltonianCycle(AsGraph(hamiltonian_graphs[k]))
    /\ \A k \in 1 .. Len(non_hamiltonian_graphs) :
           ~HasHamiltonianCycle(AsGraph(non_hamiltonian_graphs[k]))
    /\ \A e \in Stored : \A a \in Nodes(NODES_N) : degree(AsGraph(e), a) >= 2

\* Under Spec: the graph main holds is symmetric too.
MainSymmetry == Symmetric(graph) /\ \A e \in Stored : Symmetric(AsGraph(e))

====
